---- MODULE Spec2Model ----
(***************************************************************************)
(* Notebook support of jedi-language-server                                *)
(* (src/jedi_language_server/notebook_utils.py): the coordinate mapper     *)
(* between notebook cells and the concatenated notebook source, the        *)
(* splitting of notebook edits into per-cell edits, the workspace/server   *)
(* proxies and the supports_notebooks request wrapper.                     *)
(*                                                                         *)
(* Optional values (Optional[...] in the source) are sequences of length   *)
(* at most one: <<>> is None and <<x>> is the value x.  Strings that the   *)
(* code inspects (document sources) are sequences of characters; URIs are  *)
(* opaque strings.                                                         *)
(***************************************************************************)
EXTENDS Integers, Sequences, FiniteSets, TLC

VARIABLES
    notebook_documents, \* Workspace._notebook_documents: open notebook URI -> NotebookDocument
    text_documents,     \* Workspace.text_documents: cell URI -> TextDocument
    server,             \* closure variable `server` of supports_notebooks: number of ServerWrapper layers over SERVER
    pc,                 \* position of the request being served by wrapped()
    params,             \* local `params` of wrapped() (rewritten in place by attrs.evolve)
    request,            \* the params the host dispatcher passed to wrapped()
    notebook,           \* local `notebook` of wrapped(): the mapper built on entry, or None
    call,               \* what f(server, params) received, and the document it read through server.workspace
    result,             \* what f returned
    response,           \* what wrapped() returned
    out                 \* record of the last mapper operation applied (pure-function specifications)

vars == <<notebook_documents, text_documents, server, pc, params, request,
          notebook, call, result, response, out>>

----------------------------------------------------------------------------
(* Bounds of the model *)

MaxCells == 2         \* cells of the notebook
MaxTextLen == 2       \* characters of a cell's source (specification Spec)
MaxLine == 4          \* largest line number of a position given to the mapper
MaxChar == 1          \* largest character offset of a position
MaxEdits == 2         \* edits of one TextDocumentEdit
MaxEditLine == 1      \* largest line number of an edit's range
MaxShortTextLen == 1  \* characters of a cell's source (SpecEdits, SpecServer)
MaxBackendLine == 2   \* largest line number of a range the backend returns
MaxLocations == 2     \* locations of one backend result
MaxDepth == 2         \* ServerWrapper layers the model follows

----------------------------------------------------------------------------
(* Values *)

None == <<>>
Some(x) == <<x>>
IsNone(o) == o = <<>>
Get(o) == o[1]

Min(S) == CHOOSE x \in S : \A y \in S : x <= y

NotebookURI == "file:nb.ipynb"
PlainURI == "file:mod.py"
AllCellURIs == <<"cell:a", "cell:b", "cell:c", "cell:d">>
CellURIs == {AllCellURIs[i] : i \in 1..MaxCells}

\* Sequences over S of length at most n.
SeqsUpTo(S, n) == UNION {[1..k -> S] : k \in 0..n}

LF == "\n"
Alphabet == {"x", LF}
Texts == SeqsUpTo(Alphabet, MaxTextLen)
ShortTexts == SeqsUpTo(Alphabet, MaxShortTextLen)

Position(line, character) == [line |-> line, character |-> character]
Range(start, end) == [start |-> start, end |-> end]
Location(uri, range) == [uri |-> uri, range |-> range]

Positions == {Position(l, c) : l \in 0..MaxLine, c \in 0..MaxChar}
PosLeq(p, q) == p.line < q.line \/ (p.line = q.line /\ p.character <= q.character)
Ranges == {r \in [start : Positions, end : Positions] : PosLeq(r.start, r.end)}

----------------------------------------------------------------------------
(* pygls documents, as this file uses them *)

\* str.splitlines(True): the lines of a text, each with its line break.
RECURSIVE splitlines(_)
splitlines(s) ==
    IF s = <<>> THEN <<>>
    ELSE LET brk == {i \in 1..Len(s) : s[i] = LF}
         IN IF brk = {} THEN <<s>>
            ELSE <<SubSeq(s, 1, Min(brk))>> \o splitlines(SubSeq(s, Min(brk) + 1, Len(s)))

\* sep.join(parts)
RECURSIVE join(_, _)
join(sep, parts) ==
    IF parts = <<>> THEN <<>>
    ELSE IF Len(parts) = 1 THEN parts[1]
    ELSE parts[1] \o sep \o join(sep, Tail(parts))

TextDocument(uri, src, version) == [uri |-> uri, source |-> src, version |-> version]

\* A cell held by a mapper is a reference to the TextDocument object stored in
\* workspace.text_documents under the cell's URI; the workspace updates that
\* object in place, so its attributes are read from the current state.
Deref(cell) == text_documents[cell]

\* TextDocument.lines
lines(cell) == splitlines(Deref(cell).source)

\* Workspace.get_notebook_document(notebook_uri=..., cell_uri=...)
get_notebook_document(notebook_uri, cell_uri) ==
    IF ~IsNone(notebook_uri)
    THEN IF Get(notebook_uri) \in DOMAIN notebook_documents
         THEN Some(notebook_documents[Get(notebook_uri)]) ELSE None
    ELSE IF ~IsNone(cell_uri)
    THEN LET owners == {n \in DOMAIN notebook_documents :
                          \E i \in 1..Len(notebook_documents[n].cells) :
                              notebook_documents[n].cells[i] = Get(cell_uri)}
         IN IF owners = {} THEN None
            ELSE Some(notebook_documents[CHOOSE n \in owners : TRUE])
    ELSE None

\* Contents of a document that Workspace.get_text_document loads from disk.
OnDisk == <<"<file>">>

\* Workspace.get_text_document(doc_uri) of the underlying workspace
workspace_get_text_document(doc_uri) ==
    IF doc_uri \in DOMAIN text_documents THEN text_documents[doc_uri]
    ELSE TextDocument(doc_uri, OnDisk, None)

----------------------------------------------------------------------------
(* NotebookCoordinateMapper *)

RECURSIVE start_line(_, _)
\* value of start_line when the loop of __init__ reaches cell number index
start_line(cells, index) ==
    IF index = 1 THEN 0
    ELSE start_line(cells, index - 1) + Len(lines(cells[index - 1]))

\* last position of the cell with this URI (a later dictionary entry
\* overwrites an earlier one with the same key)
last_index(cells, uri) ==
    CHOOSE i \in 1..Len(cells) :
        /\ Deref(cells[i]).uri = uri
        /\ \A j \in 1..Len(cells) : Deref(cells[j]).uri = uri => j <= i

\* __init__: self._cell_line_range_by_uri
cell_line_range_by_uri(cells) ==
    [uri \in {Deref(cells[i]).uri : i \in 1..Len(cells)} |->
        [start |-> start_line(cells, last_index(cells, uri)),
         stop |-> start_line(cells, last_index(cells, uri))
                    + Len(lines(cells[last_index(cells, uri)]))]]

\* __init__: self._cell_by_uri
cell_by_uri(cells) ==
    [uri \in {Deref(cells[i]).uri : i \in 1..Len(cells)} |-> cells[last_index(cells, uri)]]

NotebookCoordinateMapper(notebook_document, cells) ==
    [document |-> notebook_document,
     cells |-> cells,
     cell_by_uri |-> cell_by_uri(cells),
     cell_line_range_by_uri |-> cell_line_range_by_uri(cells)]

\* notebook_coordinate_mapper(workspace, notebook_uri=..., cell_uri=...); the
\* workspace is the server's, reached directly or through WorkspaceWrapper
\* layers that forward get_notebook_document and text_documents.
notebook_coordinate_mapper(notebook_uri, cell_uri) ==
    LET notebook_document == get_notebook_document(notebook_uri, cell_uri)
    IN IF IsNone(notebook_document) THEN None
       ELSE Some(NotebookCoordinateMapper(Get(notebook_document),
                                          Get(notebook_document).cells))

\* NotebookCoordinateMapper.source
source(mapper) ==
    join(<<LF>>, [i \in 1..Len(mapper.cells) |-> Deref(mapper.cells[i]).source])

notebook_position(mapper, cell_uri, cell_pos) ==
    Position(mapper.cell_line_range_by_uri[cell_uri].start + cell_pos.line,
             cell_pos.character)

notebook_range(mapper, cell_uri, cell_rng) ==
    Range(notebook_position(mapper, cell_uri, cell_rng.start),
          notebook_position(mapper, cell_uri, cell_rng.end))

\* InRange with the end of the range included: a fault the round trip detects
InRange_inclusive(line, line_range) == line_range.start <= line /\ line <= line_range.stop

\* line in range(start, stop)
InRange(line, line_range) == line_range.start <= line /\ line < line_range.stop

cell_position(mapper, notebook_pos) ==
    LET hits == {i \in 1..Len(mapper.cells) :
                    InRange(notebook_pos.line,
                            mapper.cell_line_range_by_uri[Deref(mapper.cells[i]).uri])}
    IN IF hits = {} THEN None
       ELSE LET uri == Deref(mapper.cells[Min(hits)]).uri
                line_range == mapper.cell_line_range_by_uri[uri]
            IN Some([uri |-> uri,
                     position |-> Position(notebook_pos.line - line_range.start,
                                           notebook_pos.character)])

\* cell_range without the comparison of the two cells: a fault that lets a
\* cross-cell range through, anchored in the cell of its start
cell_range_start_cell(mapper, notebook_rng) ==
    LET start == cell_position(mapper, notebook_rng.start)
        end == cell_position(mapper, notebook_rng.end)
    IN IF IsNone(start) THEN None
       ELSE IF IsNone(end) THEN None
       ELSE Some(Location(Get(start).uri, Range(Get(start).position, Get(end).position)))

cell_range(mapper, notebook_rng) ==
    LET start == cell_position(mapper, notebook_rng.start)
        end == cell_position(mapper, notebook_rng.end)
    IN IF IsNone(start) THEN None
       ELSE IF IsNone(end) THEN None
       ELSE IF Get(start).uri # Get(end).uri THEN None
       ELSE Some(Location(Get(start).uri, Range(Get(start).position, Get(end).position)))

cell_location(mapper, notebook_location) ==
    IF notebook_location.uri # mapper.document.uri THEN None
    ELSE cell_range(mapper, notebook_location.range)

TextEdit(range, new_text) == [range |-> range, new_text |-> new_text]
TextDocumentEdit(uri, version, edits) ==
    [text_document |-> [uri |-> uri, version |-> version], edits |-> edits]

\* attrs.evolve(text_edit, range=...) keeps every other field
cell_text_edit(mapper, text_edit) ==
    LET location == cell_range(mapper, text_edit.range)
    IN IF IsNone(location) THEN None
       ELSE Some([uri |-> Get(location).uri,
                  text_edit |-> [text_edit EXCEPT !.range = Get(location).range]])

\* The subsequence of s at the positions that satisfy Keep.
SelectAt(s, Keep(_)) ==
    LET F[i \in 0..Len(s)] ==
            IF i = 0 THEN <<>>
            ELSE IF Keep(i) THEN Append(F[i - 1], s[i]) ELSE F[i - 1]
    IN F[Len(s)]

\* cell_text_document_edits yielding the groups in the order of the cells in
\* the notebook instead of the order in which edits_by_uri received its keys
cell_text_document_edits_in_cell_order(mapper, text_document_edit) ==
    IF text_document_edit.text_document.uri # mapper.document.uri THEN <<>>
    ELSE LET edits == text_document_edit.edits
             converted == [i \in 1..Len(edits) |-> cell_text_edit(mapper, edits[i])]
             appended == SelectAt([i \in 1..Len(edits) |-> IF IsNone(converted[i]) THEN None
                                                          ELSE Get(converted[i])],
                                  LAMBDA i : ~IsNone(converted[i]))
             keys == SelectAt([i \in 1..Len(mapper.cells) |-> Deref(mapper.cells[i]).uri],
                              LAMBDA i : \E j \in 1..Len(appended) :
                                            appended[j].uri = Deref(mapper.cells[i]).uri)
             group(uri) == SelectAt([i \in 1..Len(appended) |-> appended[i].text_edit],
                                    LAMBDA i : appended[i].uri = uri)
         IN [k \in 1..Len(keys) |->
                LET cell == Deref(mapper.cell_by_uri[keys[k]])
                    version == IF IsNone(cell.version) THEN 0 ELSE Get(cell.version)
                IN TextDocumentEdit(cell.uri, version, group(keys[k]))]

cell_text_document_edits(mapper, text_document_edit) ==
    IF text_document_edit.text_document.uri # mapper.document.uri THEN <<>>
    ELSE LET edits == text_document_edit.edits
             converted == [i \in 1..Len(edits) |-> cell_text_edit(mapper, edits[i])]
             \* the (uri, edit) pairs appended to edits_by_uri, in input order
             appended == SelectAt([i \in 1..Len(edits) |-> IF IsNone(converted[i]) THEN None
                                                          ELSE Get(converted[i])],
                                  LAMBDA i : ~IsNone(converted[i]))
             \* keys of edits_by_uri, in insertion order
             keys == SelectAt([i \in 1..Len(appended) |-> appended[i].uri],
                              LAMBDA i : \A j \in 1..(i - 1) : appended[j].uri # appended[i].uri)
             group(uri) == SelectAt([i \in 1..Len(appended) |-> appended[i].text_edit],
                                    LAMBDA i : appended[i].uri = uri)
         IN [k \in 1..Len(keys) |->
                LET cell == Deref(mapper.cell_by_uri[keys[k]])
                    version == IF IsNone(cell.version) THEN 0 ELSE Get(cell.version)
                IN TextDocumentEdit(cell.uri, version, group(keys[k]))]

----------------------------------------------------------------------------
(* text_document_or_cell_locations *)

\* converted_location leaving out a notebook location that cell_location
\* cannot convert
converted_location_dropping(location) ==
    LET mapper == notebook_coordinate_mapper(Some(location.uri), None)
    IN IF IsNone(mapper) THEN <<location>>
       ELSE IF ~IsNone(cell_location(Get(mapper), location))
       THEN <<Get(cell_location(Get(mapper), location))>>
       ELSE <<>>

\* the loop body: what is appended to results for one location
converted_location(location) ==
    LET mapper == notebook_coordinate_mapper(Some(location.uri), None)
    IN IF ~IsNone(mapper) /\ ~IsNone(cell_location(Get(mapper), location))
       THEN <<Get(cell_location(Get(mapper), location))>>
       ELSE <<location>>

RECURSIVE converted_locations(_)
converted_locations(locations) ==
    IF locations = <<>> THEN <<>>
    ELSE converted_location(Head(locations)) \o converted_locations(Tail(locations))

\* locations is Optional[List[Location]]
text_document_or_cell_locations(locations) ==
    IF IsNone(locations) THEN None
    ELSE IF converted_locations(Get(locations)) # <<>>
         THEN Some(converted_locations(Get(locations)))
         ELSE None

----------------------------------------------------------------------------
(* ServerWrapper / WorkspaceWrapper.  A server value is the number of       *)
(* ServerWrapper layers around SERVER; the workspace of a server with d     *)
(* layers is SERVER.workspace under d WorkspaceWrapper layers.              *)

\* ServerWrapper(server)
ServerWrapper(srv) == srv + 1

\* view_mapper looking the document up as a notebook URI instead of a cell URI
view_mapper_by_notebook_uri(doc_uri) == notebook_coordinate_mapper(Some(doc_uri), None)

\* view_mapper reusing the mapper that wrapped() built on entry instead of
\* building one from the current state of the workspace
view_mapper_cached(doc_uri) == notebook

\* WorkspaceWrapper.get_text_document, line 276: the mapper it builds
view_mapper(doc_uri) == notebook_coordinate_mapper(None, Some(doc_uri))

\* server.workspace.get_text_document(doc_uri) for a server with depth layers
RECURSIVE get_text_document(_, _)
get_text_document(depth, doc_uri) ==
    IF depth = 0 THEN workspace_get_text_document(doc_uri)
    ELSE LET nb == view_mapper(doc_uri)
         IN IF IsNone(nb) THEN get_text_document(depth - 1, doc_uri)
            ELSE TextDocument(Get(nb).document.uri, source(Get(nb)), None)

----------------------------------------------------------------------------
(* States of the workspace *)

NoDocuments == [u \in {} |-> u]

\* the notebook, open with these cells
OpenNotebook(cells) ==
    [n \in {NotebookURI} |-> [uri |-> NotebookURI, cells |-> cells]]

CellSet(cells) == {cells[i] : i \in 1..Len(cells)}

\* URIs are opaque: a notebook of k cells is taken with the first k cell URIs.
CellLists == {SubSeq(AllCellURIs, 1, k) : k \in 0..MaxCells}

\* Workspaces in which the notebook is open, every cell's document stored
\* under its URI with a source among texts and a version among versions.
OpenWorkspaces(texts, versions) ==
    UNION {
        {[notebook_documents |-> OpenNotebook(cells),
          text_documents |-> [c \in CellSet(cells) |-> TextDocument(c, src[c], ver[c])]] :
            src \in [CellSet(cells) -> texts], ver \in [CellSet(cells) -> versions]} :
        cells \in CellLists}

OpenWorkspace(texts, versions) ==
    \E w \in OpenWorkspaces(texts, versions) :
        /\ notebook_documents = w.notebook_documents
        /\ text_documents = w.text_documents

ClosedWorkspace ==
    /\ notebook_documents = NoDocuments
    /\ text_documents = NoDocuments

NoRequest ==
    /\ server = 0
    /\ pc = "idle"
    /\ params = None
    /\ request = None
    /\ notebook = None
    /\ call = None
    /\ result = None
    /\ response = None

requestVars == <<server, pc, params, request, notebook, call, result, response>>
workspaceVars == <<notebook_documents, text_documents>>

\* the mapper of the open notebook
Mapper == notebook_coordinate_mapper(Some(NotebookURI), None)

----------------------------------------------------------------------------
(* Specification Spec: one operation of the mapper applied to any notebook. *)
(* out records the operation, its inputs and what it returned.             *)

Init ==
    /\ ClosedWorkspace \/ OpenWorkspace(Texts, {Some(1)})
    /\ NoRequest
    /\ out = None

\* cell_position(notebook_position(cell_uri, position))
RoundTrip(cell_uri, position) ==
    /\ IsNone(out)
    /\ ~IsNone(Mapper)
    /\ cell_uri \in DOMAIN Get(Mapper).cell_line_range_by_uri
    /\ out' = Some([op |-> "round_trip",
                    cell_uri |-> cell_uri,
                    position |-> position,
                    notebook_position |-> notebook_position(Get(Mapper), cell_uri, position),
                    cell_position |-> cell_position(Get(Mapper),
                                        notebook_position(Get(Mapper), cell_uri, position))])
    /\ UNCHANGED <<workspaceVars, requestVars>>

CellRange(range) ==
    /\ IsNone(out)
    /\ ~IsNone(Mapper)
    /\ out' = Some([op |-> "cell_range",
                    range |-> range,
                    location |-> cell_range(Get(Mapper), range)])
    /\ UNCHANGED <<workspaceVars, requestVars>>

Source ==
    /\ IsNone(out)
    /\ ~IsNone(Mapper)
    /\ out' = Some([op |-> "source",
                    source |-> source(Get(Mapper))])
    /\ UNCHANGED <<workspaceVars, requestVars>>

\* WorkspaceWrapper(workspace).get_text_document(doc_uri)
ProxyGetTextDocument(doc_uri) ==
    /\ IsNone(out)
    /\ out' = Some([op |-> "get_text_document",
                    doc_uri |-> doc_uri,
                    document |-> get_text_document(1, doc_uri),
                    underlying |-> workspace_get_text_document(doc_uri)])
    /\ UNCHANGED <<workspaceVars, requestVars>>

Next ==
    \/ \E c \in CellURIs, p \in Positions : RoundTrip(c, p)
    \/ \E r \in Ranges : CellRange(r)
    \/ Source
    \/ \E u \in CellURIs \cup {NotebookURI, PlainURI} : ProxyGetTextDocument(u)

Spec == Init /\ [][Next]_vars

----------------------------------------------------------------------------
(* Specification SpecEdits: cell_text_document_edits applied to any edit *)

EditRanges ==
    {Range(Position(l1, 0), Position(l2, MaxChar)) :
        l1 \in 0..MaxEditLine, l2 \in 0..MaxEditLine} \cap Ranges

\* the i-th edit of the input carries the text i, so that an edit of the
\* output is traced to its place in the input
TextEdits(ranges) == [i \in 1..Len(ranges) |-> TextEdit(ranges[i], i)]

InitEdits ==
    /\ OpenWorkspace(ShortTexts, {Some(1)})
    /\ NoRequest
    /\ out = None

CellTextDocumentEdits(uri, ranges) ==
    /\ IsNone(out)
    /\ \E mapper \in {Get(Mapper)} :
          out' = Some([op |-> "cell_text_document_edits",
                       input |-> TextDocumentEdit(uri, 1, TextEdits(ranges)),
                       output |-> cell_text_document_edits(
                                     mapper, TextDocumentEdit(uri, 1, TextEdits(ranges)))])
    /\ UNCHANGED <<workspaceVars, requestVars>>

NextEdits ==
    \/ \E ranges \in SeqsUpTo(EditRanges, MaxEdits) :
          CellTextDocumentEdits(NotebookURI, ranges)
    \/ \E range \in EditRanges : CellTextDocumentEdits(PlainURI, <<range>>)

SpecEdits == InitEdits /\ [][NextEdits]_vars

----------------------------------------------------------------------------
(* supports_notebooks: the wrapped handler.  Results of the wrapped         *)
(* operation f are None, a list of Location, a Hover (with or without a    *)
(* range) or a value of another shape.                                     *)

NoResult == [kind |-> "none"]
OtherResult == [kind |-> "other"]
ListResult(items) == [kind |-> "list", items |-> items]
HoverResult(range) == [kind |-> "hover", range |-> range]

Params(uri, position, range) ==
    [text_document |-> [uri |-> uri], position |-> position, range |-> range]

\* lines 292-294: the mapper of the notebook the request's document is a cell of
request_mapper(p) == notebook_coordinate_mapper(None, Some(p.text_document.uri))

\* lines 296-308: params after the position and the range are rewritten
rewritten_params(nb, p) ==
    LET p1 == IF ~IsNone(p.position)
              THEN [p EXCEPT !.position =
                        Some(notebook_position(nb, p.text_document.uri, Get(p.position)))]
              ELSE p
    IN IF ~IsNone(p1.range)
       THEN [p1 EXCEPT !.range =
                Some(notebook_range(nb, p1.text_document.uri, Get(p1.range)))]
       ELSE p1

\* lines 314-321: a non-empty list of Location
locations_response(res) ==
    LET locations == text_document_or_cell_locations(Some(res.items))
    IN IF IsNone(locations) THEN NoResult ELSE ListResult(Get(locations))

\* hover_response without the comparison of the resolved cell with the
\* request's document
hover_response_any_cell(p, res) ==
    LET notebook_mapper == notebook_coordinate_mapper(None, Some(p.text_document.uri))
    IN IF IsNone(notebook_mapper) THEN res
       ELSE LET location == cell_range(Get(notebook_mapper), Get(res.range))
            IN IF IsNone(location)
               THEN res
               ELSE [res EXCEPT !.range = Some(Get(location).range)]

\* lines 323-332: a Hover with a range
hover_response(p, res) ==
    LET notebook_mapper == notebook_coordinate_mapper(None, Some(p.text_document.uri))
    IN IF IsNone(notebook_mapper) THEN res
       ELSE LET location == cell_range(Get(notebook_mapper), Get(res.range))
            IN IF IsNone(location) \/ Get(location).uri # p.text_document.uri
               THEN res
               ELSE [res EXCEPT !.range = Some(Get(location).range)]

\* lines 314-334: what wrapped() returns for the result of f
wrapped_response(p, res) ==
    IF res.kind = "list" /\ res.items # <<>> THEN locations_response(res)
    ELSE IF res.kind = "hover" /\ ~IsNone(res.range) THEN hover_response(p, res)
    ELSE res

----------------------------------------------------------------------------
(* Specification SpecServer: requests served by one decorated handler      *)
(* whose operation f returns no list of Location, while the client opens,  *)
(* changes and closes the notebook.  wrapped() is                          *)
(* synchronous; the workspace changes between requests, and the contents   *)
(* of cells may also change while the wrapped operation runs, before it    *)
(* reads the document.                                                     *)

BackendRanges ==
    {Range(Position(l1, 0), Position(l2, MaxChar)) :
        l1 \in 0..MaxBackendLine, l2 \in 0..MaxBackendLine} \cap Ranges

BackendLocations == {Location(u, r) : u \in {NotebookURI, PlainURI}, r \in BackendRanges}

\* results that are no list of Location
PlainResults ==
    {NoResult, OtherResult, ListResult(<<>>)}
    \cup {HoverResult(r) : r \in {None} \cup {Some(x) : x \in BackendRanges}}

BackendResults ==
    PlainResults \cup {ListResult(items) : items \in SeqsUpTo(BackendLocations, MaxLocations)}

RequestParams ==
    {Params(u, p, r) : u \in CellURIs \cup {PlainURI},
                       p \in {None, Some(Position(0, MaxChar))},
                       r \in {None, Some(Range(Position(0, 0), Position(0, MaxChar)))}}

InitServer ==
    /\ ClosedWorkspace
    /\ NoRequest
    /\ out = None

\* notebookDocument/didOpen
DidOpenNotebook ==
    /\ pc = "idle"
    /\ notebook_documents = NoDocuments
    /\ \E w \in OpenWorkspaces(ShortTexts, {Some(1)}) :
          /\ notebook_documents' = w.notebook_documents
          /\ text_documents' = w.text_documents
    /\ UNCHANGED <<requestVars, out>>

\* notebookDocument/didClose
DidCloseNotebook ==
    /\ pc = "idle"
    /\ notebook_documents # NoDocuments
    /\ notebook_documents' = NoDocuments
    /\ text_documents' = NoDocuments
    /\ UNCHANGED <<requestVars, out>>

\* notebookDocument/didChange of one cell's text: the workspace updates the
\* stored TextDocument in place.  The version number sent with the change is
\* not followed: no operation of this specification reads it.
DidChange(cell, text) ==
    /\ pc \in {"idle", "call"}
    /\ cell \in DOMAIN text_documents
    /\ text # text_documents[cell].source
    /\ text_documents' = [text_documents EXCEPT ![cell].source = text]
    /\ UNCHANGED <<notebook_documents, requestVars, out>>

\* wrapped(params), lines 290-310: up to the call of f
WrappedEnter(p) ==
    /\ pc = "idle"
    /\ request' = Some(p)
    /\ notebook' = request_mapper(p)
    /\ IF ~IsNone(request_mapper(p))
       THEN /\ server < MaxDepth
            /\ params' = Some(rewritten_params(Get(request_mapper(p)), p))
            /\ server' = ServerWrapper(server)
       ELSE /\ params' = Some(p)
            /\ server' = server
    /\ pc' = "call"
    /\ UNCHANGED <<workspaceVars, call, result, response, out>>

\* lines 312-334: f(server, params) reads the request's document through
\* server.workspace and returns res; wrapped() post-processes it and returns.
WrappedReturn(res) ==
    /\ pc = "call"
    /\ call' = Some([server |-> server,
                     params |-> Get(params),
                     mapper |-> IF server = 0 THEN None
                                ELSE view_mapper(Get(params).text_document.uri),
                     document |-> get_text_document(server, Get(params).text_document.uri)])
    /\ result' = Some(res)
    /\ response' = Some(wrapped_response(Get(params), res))
    /\ pc' = "done"
    /\ UNCHANGED <<workspaceVars, server, params, request, notebook, out>>

\* the response is handed to the dispatcher; the locals of wrapped() are gone
Finish ==
    /\ pc = "done"
    /\ pc' = "idle"
    /\ params' = None
    /\ request' = None
    /\ call' = None
    /\ result' = None
    /\ response' = None
    /\ notebook' = None
    /\ UNCHANGED <<workspaceVars, server, out>>

\* what the client and the dispatcher do, whatever f returns
Serve ==
    \/ DidOpenNotebook
    \/ DidCloseNotebook
    \/ \E c \in CellURIs, t \in ShortTexts : DidChange(c, t)
    \/ \E p \in RequestParams : WrappedEnter(p)
    \/ Finish

NextServer ==
    \/ Serve
    \/ \E r \in PlainResults : WrappedReturn(r)

SpecServer == InitServer /\ [][NextServer]_vars

----------------------------------------------------------------------------
(* Specification SpecLocations: as SpecServer, with an operation f that    *)
(* also returns lists of Location.                                         *)

NextLocations ==
    \/ Serve
    \/ \E r \in BackendResults : WrappedReturn(r)

SpecLocations == InitServer /\ [][NextLocations]_vars

----------------------------------------------------------------------------
(* The layout of the notebook as the specification defines it, from the    *)
(* current contents of the cells: cell i covers the lines                  *)
(* [StartOf(i), StartOf(i) + LineCount(i)) of the notebook.                *)

NotebookIsOpen == NotebookURI \in DOMAIN notebook_documents
NbCells == IF NotebookIsOpen THEN notebook_documents[NotebookURI].cells ELSE <<>>
IsCell(uri) == \E i \in 1..Len(NbCells) : NbCells[i] = uri

CountLF(text) == Cardinality({i \in 1..Len(text) : text[i] = LF})
\* lines of a text: its line breaks, and one more for an unterminated last line
LineCountOf(text) ==
    CountLF(text) + (IF text # <<>> /\ text[Len(text)] # LF THEN 1 ELSE 0)
LineCount(i) == LineCountOf(text_documents[NbCells[i]].source)

RECURSIVE StartOf(_)
StartOf(i) == IF i = 1 THEN 0 ELSE StartOf(i - 1) + LineCount(i - 1)
TotalLines == IF NbCells = <<>> THEN 0 ELSE StartOf(Len(NbCells)) + LineCount(Len(NbCells))

\* the cells whose line range holds the line (at most one)
OwnersOf(line) ==
    {i \in 1..Len(NbCells) : StartOf(i) <= line /\ line < StartOf(i) + LineCount(i)}
\* the cells that hold both ends of the range
SingleCellOf(range) == OwnersOf(range.start.line) \cap OwnersOf(range.end.line)
\* the range, in the coordinates of cell i
ShiftedInto(i, range) ==
    Range(Position(range.start.line - StartOf(i), range.start.character),
          Position(range.end.line - StartOf(i), range.end.character))
\* the location of a notebook range that lies in cell i
CellLocationIn(i, range) == Location(NbCells[i], ShiftedInto(i, range))

IndexOf(uri) == CHOOSE i \in 1..Len(NbCells) : NbCells[i] = uri

Did(op) == ~IsNone(out) /\ Get(out).op = op

----------------------------------------------------------------------------
(* Claims on the mapper (specification Spec) *)

\* C1: round trip.  For every cell c of the mapper and every position p with
\* 0 <= p.line < lineCount(c), cell_position(notebook_position(c.uri, p)) is
\* exactly (c.uri, p), whatever the other cells are.
C1_RoundTrip ==
    (Did("round_trip") /\ Get(out).position.line < LineCount(IndexOf(Get(out).cell_uri)))
        => Get(out).cell_position =
              Some([uri |-> Get(out).cell_uri, position |-> Get(out).position])

\* a round trip of a position on the second line of a cell that follows a
\* cell without lines
C1_Witness ==
    /\ Did("round_trip")
    /\ Len(NbCells) = 2
    /\ Get(out).cell_uri = NbCells[2]
    /\ LineCount(1) = 0
    /\ LineCount(2) = 2
    /\ Get(out).position = Position(1, 1)
    /\ Get(out).cell_position = Some([uri |-> NbCells[2], position |-> Position(1, 1)])

\* C7: source/index consistency.  The number of lines of the concatenated
\* source equals the sum of the cells' line counts, the end of the last
\* cell's line range.
C7_SourceLinesMatchIndex ==
    Did("source") => LineCountOf(Get(out).source) = TotalLines

\* C8: cross-cell rejection.  cell_range returns None when an end of the
\* range is outside every cell or the two ends are in different cells, and
\* otherwise the Location of the one cell holding both ends, with both ends
\* shifted by the start line of that cell.
C8_CellRange ==
    Did("cell_range") =>
        IF SingleCellOf(Get(out).range) = {}
        THEN Get(out).location = None
        ELSE \E i \in SingleCellOf(Get(out).range) :
                Get(out).location = Some(CellLocationIn(i, Get(out).range))

\* a range that starts in the first cell and ends in the second is rejected
C8_Witness ==
    /\ Did("cell_range")
    /\ 1 \in OwnersOf(Get(out).range.start.line)
    /\ 2 \in OwnersOf(Get(out).range.end.line)
    /\ Get(out).location = None

\* C6, as stated: get_text_document of the proxy returns the concatenated
\* notebook source when the URI is an open notebook's own URI, and for every
\* other URI what the underlying workspace returns.
C6_SubstitutesAtNotebookURI ==
    Did("get_text_document") =>
        IF Get(out).doc_uri \in DOMAIN notebook_documents
        THEN Get(out).document.source =
                join(<<LF>>, [i \in 1..Len(NbCells) |-> text_documents[NbCells[i]].source])
        ELSE Get(out).document = Get(out).underlying

\* C6, amended: get_text_document of the proxy returns a document with the
\* notebook's URI and the concatenated notebook source when the URI is that
\* of a cell of an open notebook, and for every other URI, the notebook's own
\* URI included, what the underlying workspace returns.
C6_SubstitutesAtCellURI ==
    Did("get_text_document") =>
        IF IsCell(Get(out).doc_uri)
        THEN Get(out).document =
                TextDocument(NotebookURI,
                             join(<<LF>>, [i \in 1..Len(NbCells) |->
                                              text_documents[NbCells[i]].source]),
                             None)
        ELSE Get(out).document = Get(out).underlying

\* the document of the second of two cells is asked for, and the proxy
\* answers with the notebook's document
C6_Witness ==
    /\ Did("get_text_document")
    /\ Len(NbCells) = 2
    /\ Get(out).doc_uri = NbCells[2]
    /\ text_documents[NbCells[1]].source # <<>>
    /\ Get(out).document.uri = NotebookURI
    /\ Get(out).document # Get(out).underlying

----------------------------------------------------------------------------
(* Claims on the splitting of edits (specification SpecEdits).  The i-th   *)
(* edit of the input has new_text = i.                                     *)

EditsIn == Get(out).input.edits
GroupsOut == Get(out).output
\* the places (group, position) of the output that hold the i-th input edit
PlacesOf(i) ==
    {pl \in (1..Len(GroupsOut)) \X (1..MaxEdits) :
        /\ pl[2] <= Len(GroupsOut[pl[1]].edits)
        /\ GroupsOut[pl[1]].edits[pl[2]].new_text = i}
\* the first input edit that lies in the cell of group k
FirstEditOf(k) ==
    Min({i \in 1..Len(EditsIn) :
            \E c \in SingleCellOf(EditsIn[i].range) :
                NbCells[c] = GroupsOut[k].text_document.uri})

\* C2: edit splitting.  For a TextDocumentEdit addressed to the notebook,
\* there is exactly one output TextDocumentEdit per cell that receives an
\* edit; the groups come in the order in which their cells are first met in
\* the input; the edits of a group keep their input order; an edit whose
\* range does not lie in a single cell is in no group, and every other edit
\* is in exactly one group, that of its cell, once.
C2_EditSplitting ==
    (Did("cell_text_document_edits") /\ Get(out).input.text_document.uri = NotebookURI) =>
        /\ \A k1, k2 \in 1..Len(GroupsOut) :
              k1 # k2 => GroupsOut[k1].text_document.uri # GroupsOut[k2].text_document.uri
        /\ {GroupsOut[k].text_document.uri : k \in 1..Len(GroupsOut)}
              = {NbCells[c] : c \in UNION {SingleCellOf(EditsIn[i].range) : i \in 1..Len(EditsIn)}}
        /\ \A k1, k2 \in 1..Len(GroupsOut) : k1 < k2 => FirstEditOf(k1) < FirstEditOf(k2)
        /\ \A k \in 1..Len(GroupsOut) : \A j1, j2 \in 1..Len(GroupsOut[k].edits) :
              j1 < j2 => GroupsOut[k].edits[j1].new_text < GroupsOut[k].edits[j2].new_text
        /\ \A i \in 1..Len(EditsIn) :
              IF SingleCellOf(EditsIn[i].range) = {}
              THEN PlacesOf(i) = {}
              ELSE /\ Cardinality(PlacesOf(i)) = 1
                   /\ \A pl \in PlacesOf(i) : \E c \in SingleCellOf(EditsIn[i].range) :
                         GroupsOut[pl[1]].text_document.uri = NbCells[c]

\* an edit in the second cell followed by an edit in the first cell: the
\* group of the second cell comes first
C2_Witness ==
    /\ Did("cell_text_document_edits")
    /\ Get(out).input.text_document.uri = NotebookURI
    /\ Len(EditsIn) = 2
    /\ SingleCellOf(EditsIn[1].range) = {2}
    /\ SingleCellOf(EditsIn[2].range) = {1}
    /\ Len(GroupsOut) = 2
    /\ GroupsOut[1].text_document.uri = NbCells[2]
    /\ GroupsOut[1].edits = <<TextEdit(ShiftedInto(2, EditsIn[1].range), 1)>>
    /\ GroupsOut[2].text_document.uri = NbCells[1]
    /\ GroupsOut[2].edits = <<TextEdit(ShiftedInto(1, EditsIn[2].range), 2)>>

----------------------------------------------------------------------------
(* Claims on the request wrapper (specifications SpecServer and           *)
(* SpecLocations).  In a state with pc = "done" the request, the call of   *)
(* f, its result and the response of wrapped() are those of the request    *)
(* just served.                                                            *)

Served == pc = "done"
RequestURI == Get(request).text_document.uri
ResultIsLocations == Get(result).kind = "list" /\ Get(result).items # <<>>
ResultIsHoverWithRange == Get(result).kind = "hover" /\ ~IsNone(Get(result).range)

\* what the claim C3 asks of one location of the result
C3_Expected(location) ==
    IF location.uri \in DOMAIN notebook_documents
    THEN IF SingleCellOf(location.range) # {}
         THEN <<CellLocationIn(CHOOSE i \in SingleCellOf(location.range) : TRUE,
                               location.range)>>
         ELSE <<>>
    ELSE <<location>>

RECURSIVE C3_ExpectedAll(_)
C3_ExpectedAll(locations) ==
    IF locations = <<>> THEN <<>>
    ELSE C3_Expected(Head(locations)) \o C3_ExpectedAll(Tail(locations))

\* C3: location post-processing.  When the result is a non-empty list of
\* Location, a location at an open notebook's URI is replaced by its cell
\* location if cell_location succeeds and dropped if it fails; any other
\* location is left untouched.
C3_LocationsConvertedOrDropped ==
    (Served /\ ResultIsLocations) =>
        IF C3_ExpectedAll(Get(result).items) = <<>>
        THEN Get(response) \in {NoResult, ListResult(<<>>)}
        ELSE Get(response) = ListResult(C3_ExpectedAll(Get(result).items))

\* C4: hover anchor guard.  For a request on a cell u of an open notebook
\* whose result is a Hover with a range, the range is replaced by the
\* cell-space range when both ends of it resolve to u, and in every other
\* case the Hover is returned as the backend gave it.
C4_HoverAnchorGuard ==
    (Served /\ IsCell(RequestURI) /\ ResultIsHoverWithRange) =>
        IF IndexOf(RequestURI) \in SingleCellOf(Get(Get(result).range))
        THEN Get(response) =
                HoverResult(Some(ShiftedInto(IndexOf(RequestURI), Get(Get(result).range))))
        ELSE Get(response) = Get(result)

\* a hover on the first cell whose range lies in the second cell is returned
\* with its notebook-space range
C4_Witness ==
    /\ Served
    /\ Len(NbCells) = 2
    /\ RequestURI = NbCells[1]
    /\ ResultIsHoverWithRange
    /\ SingleCellOf(Get(Get(result).range)) = {2}
    /\ Get(response) = Get(result)

\* C5, as stated: for a request whose document is not a cell of an open
\* notebook, f is called with the params unchanged and the response is the
\* result of f verbatim.
C5_PassthroughVerbatim ==
    (Served /\ ~IsCell(RequestURI)) =>
        /\ Get(call).params = Get(request)
        /\ Get(response) = Get(result)

\* C5, amended: for a request whose document is not a cell of an open
\* notebook, f is called with the params unchanged and the response is the
\* result of f verbatim, except that in a non-empty list of Location every
\* location at an open notebook's URI whose range lies in a single cell is
\* replaced by the location in that cell; the other locations, their number
\* and their order are unchanged.
C5_PassthroughButLocations ==
    (Served /\ ~IsCell(RequestURI)) =>
        /\ Get(call).params = Get(request)
        /\ IF ResultIsLocations
           THEN /\ Get(response).kind = "list"
                /\ Len(Get(response).items) = Len(Get(result).items)
                /\ \A i \in 1..Len(Get(result).items) :
                      LET location == Get(result).items[i]
                      IN IF location.uri \in DOMAIN notebook_documents
                            /\ SingleCellOf(location.range) # {}
                         THEN \E c \in SingleCellOf(location.range) :
                                 Get(response).items[i] = CellLocationIn(c, location.range)
                         ELSE Get(response).items[i] = location
           ELSE Get(response) = Get(result)

\* a request on a plain document with the notebook open: the result holds a
\* notebook location outside every cell and one inside the second cell
C5_Witness ==
    /\ Served
    /\ RequestURI = PlainURI
    /\ ~IsNone(Get(request).position)
    /\ Len(NbCells) = 2
    /\ ResultIsLocations
    /\ Len(Get(result).items) = 2
    /\ Get(result).items[1].uri = NotebookURI
    /\ SingleCellOf(Get(result).items[1].range) = {}
    /\ Get(result).items[2].uri = NotebookURI
    /\ SingleCellOf(Get(result).items[2].range) = {2}
    /\ Get(response).items[1] = Get(result).items[1]
    /\ Get(response).items[2] = CellLocationIn(2, Get(result).items[2].range)

C10_OneLayerPerRequest ==
    Served => Get(call).server = (IF IsCell(RequestURI) THEN 1 ELSE 0)

====
